---- MODULE Spec2Model ----
(***************************************************************************)
(* Model of pulp/server/agent/direct/pulpagent.py: the proxy classes       *)
(* PulpAgent, Consumer, Content and Profile.  Every method builds a gofer  *)
(* Agent from attributes of the call context, takes the stub of one        *)
(* capability class from it and invokes one method on the stub.            *)
(*                                                                         *)
(* A method body is modelled statement by statement: the keyword list of   *)
(* the Agent(...) constructor is kept as a list of expressions over the    *)
(* context, so that what a method reads from its context is computed from  *)
(* the expressions and not written down a second time.  Callers are        *)
(* threads; each owns a call frame holding the locals of the method it is  *)
(* executing, and the steps of different callers interleave.               *)
(***************************************************************************)
EXTENDS Naturals, Sequences, FiniteSets, TLC

VARIABLES contexts, frame, calls, heartbeats, lastStatus

vars == <<contexts, frame, calls, heartbeats, lastStatus>>

\* ---- bounds ------------------------------------------------------------

MaxCalls == 3
MaxUuids == 2

\* Two threads of the server call into the module at once.
Callers == {1, 2}

\* ---- values ------------------------------------------------------------

NoneValue == [type |-> "NoneType", value |-> "None"]
RequestSerial(sn) == [type |-> "RequestSerial", value |-> sn]
RemoteResult(v) == [type |-> "RemoteResult", value |-> v]

Serials == {"sn-1", "sn-2"}
RemoteValues == {"reply-1"}
OpenErrors == {"ConnectionError", "AuthError"}
SendErrors == {"ConnectionError"}
ReplyErrors == {"RemoteError"}

TimeoutKeys == {"bind_timeout", "unbind_timeout", "install_timeout",
                "update_timeout", "uninstall_timeout"}

\* ---- call contexts (pulp.server.agent.direct.context.Context) ----------

ContextIds == {"ctx-1", "ctx-2"}

InitContexts ==
    [id \in ContextIds |->
        IF id = "ctx-1"
        THEN [uuid |-> "consumer-1", url |-> "amqp://broker-1",
              secret |-> "secret-1", ctag |-> "pulp.task",
              watchdog |-> "watchdog", details |-> {<<"task_id", "task-1">>},
              timeouts |-> [k \in TimeoutKeys |->
                              CASE k = "bind_timeout" -> 10
                                [] k = "unbind_timeout" -> 20
                                [] k = "install_timeout" -> 30
                                [] k = "update_timeout" -> 40
                                [] OTHER -> 50],
              default_timeout |-> 600]
        ELSE [uuid |-> "consumer-2", url |-> "amqp://broker-2",
              secret |-> "None", ctag |-> "None",
              watchdog |-> "None", details |-> {},
              timeouts |-> [k \in {"install_timeout", "uninstall_timeout"} |->
                              IF k = "install_timeout" THEN 35 ELSE 55],
              default_timeout |-> 600]]

get_timeout(context, option) ==
    IF option \in DOMAIN context.timeouts
    THEN context.timeouts[option]
    ELSE context.default_timeout

\* ---- expressions of the Agent(...) keyword lists ----------------------

Attr(context, name) == [kind |-> "attr", obj |-> context, arg |-> name]
GetTimeout(context, option) == [kind |-> "get_timeout", obj |-> context, arg |-> option]
Literal(v) == [kind |-> "literal", obj |-> "", arg |-> v]

Eval(e, ctxs) ==
    CASE e.kind = "attr" -> ctxs[e.obj][e.arg]
      [] e.kind = "get_timeout" -> get_timeout(ctxs[e.obj], e.arg)
      [] OTHER -> e.arg

KeywordsOf(kw) == {kw[i][1] : i \in DOMAIN kw}

EvalOptions(kw, ctxs) ==
    [k \in KeywordsOf(kw) |->
        LET i == CHOOSE j \in DOMAIN kw : kw[j][1] = k
        IN Eval(kw[i][2], ctxs)]

ReadsOf(kw) ==
    {<<kw[i][2].kind, kw[i][2].arg>> :
        i \in {j \in DOMAIN kw : kw[j][2].kind # "literal"}}

\* ---- the methods ------------------------------------------------------

\* Faulty variant: the filter is built without its match level.
PulpAgent_cancel_flat_criteria(context, task_id) ==
    [Agent |-> << <<"identity", Attr(context, "uuid")>>,
                  <<"url", Attr(context, "url")>>,
                  <<"secret", Attr(context, "secret")>>,
                  <<"async", Literal(TRUE)>> >>,
     stub |-> "Admin",
     method |-> "cancel",
     args |-> <<>>,
     kwargs |-> {<<"criteria", [task_id |-> task_id]>>},
     returns |-> FALSE]

PulpAgent_cancel(context, task_id) ==
    [Agent |-> << <<"identity", Attr(context, "uuid")>>,
                  <<"url", Attr(context, "url")>>,
                  <<"secret", Attr(context, "secret")>>,
                  <<"async", Literal(TRUE)>> >>,
     stub |-> "Admin",
     method |-> "cancel",
     args |-> <<>>,
     kwargs |-> {<<"criteria", [match |-> [task_id |-> task_id]]>>},
     returns |-> FALSE]

\* Faulty variant: the async keyword is left out.
Consumer_unregistered_no_async(context) ==
    [Agent |-> << <<"identity", Attr(context, "uuid")>>,
                  <<"url", Attr(context, "url")>>,
                  <<"secret", Attr(context, "secret")>> >>,
     stub |-> "Consumer",
     method |-> "unregistered",
     args |-> <<>>,
     kwargs |-> {},
     returns |-> TRUE]

Consumer_unregistered(context) ==
    [Agent |-> << <<"identity", Attr(context, "uuid")>>,
                  <<"url", Attr(context, "url")>>,
                  <<"secret", Attr(context, "secret")>>,
                  <<"async", Literal(TRUE)>> >>,
     stub |-> "Consumer",
     method |-> "unregistered",
     args |-> <<>>,
     kwargs |-> {},
     returns |-> TRUE]

Consumer_bind(context, bindings, options) ==
    [Agent |-> << <<"identity", Attr(context, "uuid")>>,
                  <<"url", Attr(context, "url")>>,
                  <<"timeout", GetTimeout(context, "bind_timeout")>>,
                  <<"secret", Attr(context, "secret")>>,
                  <<"ctag", Attr(context, "ctag")>>,
                  <<"watchdog", Attr(context, "watchdog")>>,
                  <<"any", Attr(context, "details")>> >>,
     stub |-> "Consumer",
     method |-> "bind",
     args |-> <<bindings, options>>,
     kwargs |-> {},
     returns |-> TRUE]

\* Faulty variant: unbind drops the details of the bindings before it forwards them.
StripDetails(bindings) ==
    [i \in DOMAIN bindings |->
        [k \in DOMAIN bindings[i] \ {"details"} |-> bindings[i][k]]]

Consumer_unbind_strips_details(context, bindings, options) ==
    [Agent |-> << <<"identity", Attr(context, "uuid")>>,
                  <<"url", Attr(context, "url")>>,
                  <<"timeout", GetTimeout(context, "unbind_timeout")>>,
                  <<"secret", Attr(context, "secret")>>,
                  <<"ctag", Attr(context, "ctag")>>,
                  <<"watchdog", Attr(context, "watchdog")>>,
                  <<"any", Attr(context, "details")>> >>,
     stub |-> "Consumer",
     method |-> "unbind",
     args |-> <<StripDetails(bindings), options>>,
     kwargs |-> {},
     returns |-> TRUE]

Consumer_unbind(context, bindings, options) ==
    [Agent |-> << <<"identity", Attr(context, "uuid")>>,
                  <<"url", Attr(context, "url")>>,
                  <<"timeout", GetTimeout(context, "unbind_timeout")>>,
                  <<"secret", Attr(context, "secret")>>,
                  <<"ctag", Attr(context, "ctag")>>,
                  <<"watchdog", Attr(context, "watchdog")>>,
                  <<"any", Attr(context, "details")>> >>,
     stub |-> "Consumer",
     method |-> "unbind",
     args |-> <<bindings, options>>,
     kwargs |-> {},
     returns |-> TRUE]

\* Faulty variant: install does not pass the details of the context.
Content_install_no_details(context, units, options) ==
    [Agent |-> << <<"identity", Attr(context, "uuid")>>,
                  <<"url", Attr(context, "url")>>,
                  <<"timeout", GetTimeout(context, "install_timeout")>>,
                  <<"secret", Attr(context, "secret")>>,
                  <<"ctag", Attr(context, "ctag")>>,
                  <<"watchdog", Attr(context, "watchdog")>> >>,
     stub |-> "Content",
     method |-> "install",
     args |-> <<units, options>>,
     kwargs |-> {},
     returns |-> TRUE]

Content_install(context, units, options) ==
    [Agent |-> << <<"identity", Attr(context, "uuid")>>,
                  <<"url", Attr(context, "url")>>,
                  <<"timeout", GetTimeout(context, "install_timeout")>>,
                  <<"secret", Attr(context, "secret")>>,
                  <<"ctag", Attr(context, "ctag")>>,
                  <<"watchdog", Attr(context, "watchdog")>>,
                  <<"any", Attr(context, "details")>> >>,
     stub |-> "Content",
     method |-> "install",
     args |-> <<units, options>>,
     kwargs |-> {},
     returns |-> TRUE]

\* Faulty variant: update asks for the timeout of install.
Content_update_install_key(context, units, options) ==
    [Agent |-> << <<"identity", Attr(context, "uuid")>>,
                  <<"url", Attr(context, "url")>>,
                  <<"timeout", GetTimeout(context, "install_timeout")>>,
                  <<"secret", Attr(context, "secret")>>,
                  <<"ctag", Attr(context, "ctag")>>,
                  <<"watchdog", Attr(context, "watchdog")>>,
                  <<"any", Attr(context, "details")>> >>,
     stub |-> "Content",
     method |-> "update",
     args |-> <<units, options>>,
     kwargs |-> {},
     returns |-> TRUE]

Content_update(context, units, options) ==
    [Agent |-> << <<"identity", Attr(context, "uuid")>>,
                  <<"url", Attr(context, "url")>>,
                  <<"timeout", GetTimeout(context, "update_timeout")>>,
                  <<"secret", Attr(context, "secret")>>,
                  <<"ctag", Attr(context, "ctag")>>,
                  <<"watchdog", Attr(context, "watchdog")>>,
                  <<"any", Attr(context, "details")>> >>,
     stub |-> "Content",
     method |-> "update",
     args |-> <<units, options>>,
     kwargs |-> {},
     returns |-> TRUE]

Content_uninstall(context, units, options) ==
    [Agent |-> << <<"identity", Attr(context, "uuid")>>,
                  <<"url", Attr(context, "url")>>,
                  <<"timeout", GetTimeout(context, "uninstall_timeout")>>,
                  <<"secret", Attr(context, "secret")>>,
                  <<"ctag", Attr(context, "ctag")>>,
                  <<"watchdog", Attr(context, "watchdog")>>,
                  <<"any", Attr(context, "details")>> >>,
     stub |-> "Content",
     method |-> "uninstall",
     args |-> <<units, options>>,
     kwargs |-> {},
     returns |-> TRUE]

\* Faulty variant: send passes the url as the other methods do.
Profile_send_with_url(context) ==
    [Agent |-> << <<"identity", Attr(context, "uuid")>>,
                  <<"url", Attr(context, "url")>>,
                  <<"secret", Attr(context, "secret")>> >>,
     stub |-> "Profile",
     method |-> "send",
     args |-> <<>>,
     kwargs |-> {},
     returns |-> TRUE]

Profile_send(context) ==
    [Agent |-> << <<"identity", Attr(context, "uuid")>>,
                  <<"secret", Attr(context, "secret")>> >>,
     stub |-> "Profile",
     method |-> "send",
     args |-> <<>>,
     kwargs |-> {},
     returns |-> TRUE]

\* The body of the method named name, called with (context, args).
Body(name, context, args) ==
    CASE name = "PulpAgent.cancel" -> PulpAgent_cancel(context, args[1])
      [] name = "Consumer.unregistered" -> Consumer_unregistered(context)
      [] name = "Consumer.bind" -> Consumer_bind(context, args[1], args[2])
      [] name = "Consumer.unbind" -> Consumer_unbind(context, args[1], args[2])
      [] name = "Content.install" -> Content_install(context, args[1], args[2])
      [] name = "Content.update" -> Content_update(context, args[1], args[2])
      [] name = "Content.uninstall" -> Content_uninstall(context, args[1], args[2])
      [] OTHER -> Profile_send(context)

\* ---- payloads ----------------------------------------------------------

BindingLists ==
    { << [type_id |-> "yum", repo_id |-> "repo-1", details |-> "distributor"] >>,
      << [type_id |-> "yum", repo_id |-> "repo-1"] >> }

UnitLists == { << [type_id |-> "rpm", unit_key |-> "zsh"] >> }

OptionDicts == { [importkeys |-> TRUE] }

TaskIds == {"task-1", "task-2"}

ArgsOf(name) ==
    CASE name \in {"Consumer.bind", "Consumer.unbind"} ->
            {<<b, o>> : b \in BindingLists, o \in OptionDicts}
      [] name \in {"Content.install", "Content.update", "Content.uninstall"} ->
            {<<u, o>> : u \in UnitLists, o \in OptionDicts}
      [] name = "PulpAgent.cancel" -> {<<t>> : t \in TaskIds}
      [] OTHER -> {<<>>}

Methods == {"PulpAgent.cancel", "Consumer.unregistered", "Consumer.bind",
            "Consumer.unbind", "Content.install", "Content.update",
            "Content.uninstall", "Profile.send"}

\* ---- gofer.proxy.Agent ------------------------------------------------

\* A stub is asynchronous when the agent was opened with async set or with
\* a correlation tag; otherwise the invocation blocks for the reply.
IsAsync(options) ==
    \/ "async" \in DOMAIN options /\ options["async"] = TRUE
    \/ "ctag" \in DOMAIN options /\ options["ctag"] # "None"

\* ---- call frames ------------------------------------------------------

IdleFrame ==
    [pc |-> "idle", name |-> "", context |-> "", args |-> <<>>,
     agent |-> <<>>, reads |-> {}, opens |-> 0, sends |-> 0,
     request |-> <<>>, reply |-> <<>>, result |-> <<>>, error |-> "",
     fault |-> ""]

\* Faulty variant: the exception is caught and the method returns nothing.
propagate_swallowed(f, error) ==
    [f EXCEPT !.pc = "returned", !.error = "", !.result = <<NoneValue>>]

\* An exception raised inside a method body: no method has a try block.
propagate(f, error) == [f EXCEPT !.pc = "raised", !.error = error]

\* Faulty variant: the agent is kept in one attribute shared by all callers.
agentOf_shared(c) ==
    LET holders == {d \in Callers : frame[d].agent # <<>>}
    IN frame[CHOOSE d \in holders : \A e \in holders : d <= e].agent

\* The local variable agent of the frame of caller c.
agentOf(c) == frame[c].agent

\* The return statement: the value of the invocation, or nothing at all.
returned(f, body, value) ==
    [f EXCEPT !.pc = "returned",
              !.reply = <<value>>,
              !.result = <<IF body.returns THEN value ELSE NoneValue>>]

Init ==
    /\ contexts = InitContexts
    /\ frame = [c \in Callers |-> IdleFrame]
    /\ calls = 0
    /\ heartbeats = [u \in {} |-> "alive"]
    /\ lastStatus = <<>>

Call(c, name, context, args) ==
    /\ frame[c].pc \in {"idle", "returned", "raised"}
    /\ calls < MaxCalls
    /\ calls' = calls + 1
    /\ frame' = [frame EXCEPT ![c] =
                    [IdleFrame EXCEPT !.pc = "called", !.name = name,
                                      !.context = context, !.args = args]]
    /\ UNCHANGED <<contexts, heartbeats, lastStatus>>

\* agent = Agent(context.uuid, ...)
OpenAgent(c) ==
    LET f == frame[c]
        body == Body(f.name, f.context, f.args)
    IN /\ f.pc = "called"
       /\ frame' = [frame EXCEPT ![c] =
                       [f EXCEPT !.pc = "opened",
                                 !.agent = <<EvalOptions(body.Agent, contexts)>>,
                                 !.reads = ReadsOf(body.Agent),
                                 !.opens = f.opens + 1]]
       /\ UNCHANGED <<contexts, calls, heartbeats, lastStatus>>

OpenAgentFails(c, error) ==
    LET f == frame[c]
        body == Body(f.name, f.context, f.args)
    IN /\ f.pc = "called"
       /\ frame' = [frame EXCEPT ![c] =
                       propagate([f EXCEPT !.reads = ReadsOf(body.Agent),
                                           !.opens = f.opens + 1,
                                           !.fault = error], error)]
       /\ UNCHANGED <<contexts, calls, heartbeats, lastStatus>>

\* stub = agent.<Class>(); [return] stub.<method>(...)
RequestOf(c, body) ==
    [options |-> agentOf(c)[1], class |-> body.stub, method |-> body.method,
     args |-> body.args, kwargs |-> body.kwargs]

Invoke(c, sn) ==
    LET f == frame[c]
        body == Body(f.name, f.context, f.args)
        sent == [f EXCEPT !.request = <<RequestOf(c, body)>>,
                          !.sends = f.sends + 1]
    IN /\ f.pc = "opened"
       /\ frame' = [frame EXCEPT ![c] =
                       IF IsAsync(agentOf(c)[1])
                       THEN returned(sent, body, RequestSerial(sn))
                       ELSE [sent EXCEPT !.pc = "waiting"]]
       /\ UNCHANGED <<contexts, calls, heartbeats, lastStatus>>

InvokeFails(c, error) ==
    LET f == frame[c]
    IN /\ f.pc = "opened"
       /\ frame' = [frame EXCEPT ![c] =
                       propagate([f EXCEPT !.sends = f.sends + 1,
                                           !.fault = error], error)]
       /\ UNCHANGED <<contexts, calls, heartbeats, lastStatus>>

\* The reply a synchronous invocation was blocked on arrives.
Reply(c, v) ==
    LET f == frame[c]
        body == Body(f.name, f.context, f.args)
    IN /\ f.pc = "waiting"
       /\ frame' = [frame EXCEPT ![c] = returned(f, body, RemoteResult(v))]
       /\ UNCHANGED <<contexts, calls, heartbeats, lastStatus>>

\* The synchronous invocation raises instead of returning a reply.
ReplyFails(c, error) ==
    LET f == frame[c]
    IN /\ f.pc = "waiting"
       /\ frame' = [frame EXCEPT ![c] =
                       propagate([f EXCEPT !.fault = error], error)]
       /\ UNCHANGED <<contexts, calls, heartbeats, lastStatus>>

Next ==
    \/ \E c \in Callers, name \in Methods, context \in ContextIds :
          \E args \in ArgsOf(name) : Call(c, name, context, args)
    \/ \E c \in Callers : OpenAgent(c)
    \/ \E c \in Callers, error \in OpenErrors : OpenAgentFails(c, error)
    \/ \E c \in Callers, sn \in Serials : Invoke(c, sn)
    \/ \E c \in Callers, error \in SendErrors : InvokeFails(c, error)
    \/ \E c \in Callers, v \in RemoteValues : Reply(c, v)
    \/ \E c \in Callers, error \in ReplyErrors : ReplyFails(c, error)

Spec == Init /\ [][Next]_vars

\* ---- the status oracle (Services.heartbeat_listener) -------------------

Uuids == {"consumer-1", "consumer-2"}
StatusRecords == {"alive", "expired"}

RECURSIVE ListsUpTo(_)
ListsUpTo(n) ==
    IF n = 0 THEN {<<>>}
    ELSE LET shorter == ListsUpTo(n - 1)
         IN shorter \cup {Append(l, u) : l \in {x \in shorter : Len(x) = n - 1},
                                         u \in Uuids}

UuidLists == ListsUpTo(MaxUuids)

HeartbeatListener_status(uuids) ==
    [u \in {uuids[i] : i \in DOMAIN uuids} \cap DOMAIN heartbeats |-> heartbeats[u]]

\* Faulty variant: the result of the previous status call is kept and returned.
PulpAgent_status_cached(uuids) ==
    IF lastStatus # <<>>
    THEN lastStatus[1].result
    ELSE HeartbeatListener_status(uuids)

PulpAgent_status(uuids) == HeartbeatListener_status(uuids)

Status(uuids) ==
    /\ lastStatus' = <<[uuids |-> uuids, result |-> PulpAgent_status(uuids),
                        seen |-> heartbeats]>>
    /\ UNCHANGED <<contexts, frame, calls, heartbeats>>

Heartbeat(u) ==
    /\ heartbeats' = [v \in DOMAIN heartbeats \cup {u} |->
                         IF v = u THEN "alive" ELSE heartbeats[v]]
    /\ heartbeats' # heartbeats
    /\ UNCHANGED <<contexts, frame, calls, lastStatus>>

Expire(u) ==
    /\ u \in DOMAIN heartbeats
    /\ heartbeats[u] = "alive"
    /\ heartbeats' = [heartbeats EXCEPT ![u] = "expired"]
    /\ UNCHANGED <<contexts, frame, calls, lastStatus>>

Forget(u) ==
    /\ u \in DOMAIN heartbeats
    /\ heartbeats' = [v \in DOMAIN heartbeats \ {u} |-> heartbeats[v]]
    /\ UNCHANGED <<contexts, frame, calls, lastStatus>>

NextStatus ==
    \/ \E uuids \in UuidLists : Status(uuids)
    \/ \E u \in Uuids : Heartbeat(u)
    \/ \E u \in Uuids : Expire(u)
    \/ \E u \in Uuids : Forget(u)

SpecStatus == Init /\ [][NextStatus]_vars

\* ---- properties --------------------------------------------------------

Opened(c) == frame[c].agent # <<>>
Sent(c) == frame[c].request # <<>>
Returned(c) == frame[c].pc = "returned"
ContextOf(c) == contexts[frame[c].context]
TimeoutReads(c) == {r \in frame[c].reads : r[1] = "get_timeout"}
AttrReads(c) == {r[2] : r \in {q \in frame[c].reads : q[1] = "attr"}}

TimeoutMethods == {"Consumer.bind", "Consumer.unbind", "Content.install",
                   "Content.update", "Content.uninstall"}

ClaimedTimeoutKey(name) ==
    CASE name = "Consumer.bind" -> "bind_timeout"
      [] name = "Consumer.unbind" -> "unbind_timeout"
      [] name = "Content.install" -> "install_timeout"
      [] name = "Content.update" -> "update_timeout"
      [] OTHER -> "uninstall_timeout"

ClaimedClass(name) ==
    CASE name \in {"Consumer.unregistered", "Consumer.bind", "Consumer.unbind"} -> "Consumer"
      [] name \in {"Content.install", "Content.update", "Content.uninstall"} -> "Content"
      [] name = "Profile.send" -> "Profile"
      [] OTHER -> "Admin"

ClaimedMethod(name) ==
    CASE name = "Consumer.unregistered" -> "unregistered"
      [] name = "Consumer.bind" -> "bind"
      [] name = "Consumer.unbind" -> "unbind"
      [] name = "Content.install" -> "install"
      [] name = "Content.update" -> "update"
      [] name = "Content.uninstall" -> "uninstall"
      [] name = "Profile.send" -> "send"
      [] OTHER -> "cancel"

\* C1: bind, unbind, install, update and uninstall each ask the context for
\* their own timeout key and for no other, and the timeout option of the
\* agent they open is what get_timeout returned for that key.
C1_OwnTimeoutKey ==
    \A c \in Callers :
        (frame[c].name \in TimeoutMethods /\ frame[c].opens > 0) =>
            LET key == ClaimedTimeoutKey(frame[c].name)
            IN /\ TimeoutReads(c) = {<<"get_timeout", key>>}
               /\ Opened(c) =>
                    /\ "timeout" \in DOMAIN frame[c].agent[1]
                    /\ frame[c].agent[1]["timeout"] = get_timeout(ContextOf(c), key)

C1_Witness ==
    \E c \in Callers :
        /\ frame[c].name = "Content.update"
        /\ frame[c].context = "ctx-1"
        /\ Returned(c)
        /\ frame[c].agent[1]["timeout"] = 40

\* C2: cancel opens its agent with exactly identity, url, secret and
\* async=True, invokes cancel on the Admin class with the criteria
\* {match: {task_id: task_id}} as its only argument, and returns nothing.
C2_Cancel ==
    \A c \in Callers :
        frame[c].name = "PulpAgent.cancel" =>
            /\ Opened(c) =>
                 frame[c].agent[1] =
                    [identity |-> ContextOf(c).uuid, url |-> ContextOf(c).url,
                     secret |-> ContextOf(c).secret, async |-> TRUE]
            /\ Sent(c) =>
                 /\ frame[c].request[1].class = "Admin"
                 /\ frame[c].request[1].method = "cancel"
                 /\ frame[c].request[1].args = <<>>
                 /\ frame[c].request[1].kwargs =
                       {<<"criteria", [match |-> [task_id |-> frame[c].args[1]]]>>}
            /\ Returned(c) => frame[c].result = <<NoneValue>>

C2_Witness ==
    \E c \in Callers :
        /\ frame[c].name = "PulpAgent.cancel"
        /\ frame[c].args = <<"task-2">>
        /\ Returned(c)
        /\ Sent(c)

ValueMethods == Methods \ {"PulpAgent.cancel"}

\* C3: every method that returns a value sends its request asynchronously
\* and returns a non-empty request serial without waiting for a reply,
\* whatever the correlation tag of the context is.
C3_AlwaysAsync ==
    \A c \in Callers :
        frame[c].name \in ValueMethods =>
            /\ frame[c].pc # "waiting"
            /\ Sent(c) => IsAsync(frame[c].request[1].options)
            /\ Returned(c) =>
                 /\ frame[c].result[1].type = "RequestSerial"
                 /\ frame[c].result[1].value # ""

\* C4: Profile.send opens its agent with the identity and the secret only,
\* reads nothing else from the context, invokes send without arguments on
\* the Profile class and returns what the invocation returned.
C4_ProfileSend ==
    \A c \in Callers :
        frame[c].name = "Profile.send" =>
            /\ frame[c].opens > 0 =>
                 /\ AttrReads(c) = {"uuid", "secret"}
                 /\ TimeoutReads(c) = {}
            /\ Opened(c) =>
                 frame[c].agent[1] =
                    [identity |-> ContextOf(c).uuid, secret |-> ContextOf(c).secret]
            /\ Sent(c) =>
                 /\ frame[c].request[1].class = "Profile"
                 /\ frame[c].request[1].method = "send"
                 /\ frame[c].request[1].args = <<>>
                 /\ frame[c].request[1].kwargs = {}
            /\ Returned(c) => frame[c].result = frame[c].reply

C4_Witness ==
    \E c \in Callers :
        /\ frame[c].name = "Profile.send"
        /\ frame[c].context = "ctx-1"
        /\ Returned(c)
        /\ DOMAIN frame[c].agent[1] = {"identity", "secret"}

\* C5: status returns what the heartbeat listener holds, at the time of the
\* call, for the identities asked for: exactly the requested identities the
\* backing store knows, each with its current record, nothing for an empty
\* list; and it opens no agent and sends no request.
C5_StatusPassthrough ==
    /\ lastStatus # <<>> =>
         LET asked == {lastStatus[1].uuids[i] : i \in DOMAIN lastStatus[1].uuids}
             seen == lastStatus[1].seen
         IN /\ DOMAIN lastStatus[1].result = asked \cap DOMAIN seen
            /\ \A u \in asked \cap DOMAIN seen : lastStatus[1].result[u] = seen[u]
            /\ lastStatus[1].uuids = <<>> => DOMAIN lastStatus[1].result = {}
    /\ \A c \in Callers : frame[c].opens = 0 /\ frame[c].sends = 0

C5_Witness ==
    /\ lastStatus # <<>>
    /\ lastStatus[1].uuids = <<"consumer-1", "consumer-2">>
    /\ DOMAIN lastStatus[1].result = {"consumer-2"}
    /\ lastStatus[1].result["consumer-2"] = "expired"
    /\ lastStatus[1].seen # heartbeats

\* C6: a failure of the transport, while the agent is opened or while the
\* request is sent, ends the call with that same error: nothing is
\* returned, and the call has opened at most one agent and sent at most
\* one request.
C6_ErrorsPropagate ==
    \A c \in Callers :
        /\ frame[c].opens <= 1
        /\ frame[c].sends <= 1
        /\ frame[c].fault # "" =>
             /\ frame[c].pc = "raised"
             /\ frame[c].error = frame[c].fault
             /\ frame[c].result = <<>>
             /\ frame[c].reply = <<>>

C6_Witness ==
    /\ \E c \in Callers :
          /\ frame[c].name = "Consumer.bind"
          /\ frame[c].fault = "AuthError"
          /\ frame[c].opens = 1
          /\ frame[c].sends = 0
    /\ \E c \in Callers :
          /\ frame[c].name = "PulpAgent.cancel"
          /\ frame[c].fault = "ConnectionError"
          /\ frame[c].sends = 1

\* The agent options and the request of a call that runs alone, as a
\* function of the call's own method, context and arguments.
AloneOptions(name, context, args) ==
    EvalOptions(Body(name, context, args).Agent, InitContexts)

AloneRequest(name, context, args) ==
    [options |-> AloneOptions(name, context, args),
     class |-> Body(name, context, args).stub,
     method |-> Body(name, context, args).method,
     args |-> Body(name, context, args).args,
     kwargs |-> Body(name, context, args).kwargs]

\* C7: calls are independent: in every interleaving and after any earlier
\* calls, the agent a call opens and the request it sends are those the
\* same call produces alone, and no call changes a context.
C7_Independent ==
    /\ contexts = InitContexts
    /\ \A c \in Callers :
          /\ Opened(c) =>
               frame[c].agent[1] =
                  AloneOptions(frame[c].name, frame[c].context, frame[c].args)
          /\ Sent(c) =>
               frame[c].request[1] =
                  AloneRequest(frame[c].name, frame[c].context, frame[c].args)

C7_Witness ==
    /\ calls = MaxCalls
    /\ frame[1].name = "Consumer.bind" /\ frame[1].context = "ctx-1"
    /\ frame[2].name = "Profile.send" /\ frame[2].context = "ctx-2"
    /\ frame[1].pc = "opened"
    /\ frame[2].pc = "returned"

\* C8: unregistered opens its agent with exactly identity, url, secret and
\* async=True, reads no timeout, correlation tag, watchdog or details from
\* the context, invokes unregistered without arguments on the Consumer
\* class and returns the serial of the invocation.
C8_Unregistered ==
    \A c \in Callers :
        frame[c].name = "Consumer.unregistered" =>
            /\ frame[c].opens > 0 =>
                 /\ AttrReads(c) = {"uuid", "url", "secret"}
                 /\ TimeoutReads(c) = {}
            /\ Opened(c) =>
                 frame[c].agent[1] =
                    [identity |-> ContextOf(c).uuid, url |-> ContextOf(c).url,
                     secret |-> ContextOf(c).secret, async |-> TRUE]
            /\ Sent(c) =>
                 /\ frame[c].request[1].class = "Consumer"
                 /\ frame[c].request[1].method = "unregistered"
                 /\ frame[c].request[1].args = <<>>
                 /\ frame[c].request[1].kwargs = {}
            /\ Returned(c) =>
                 /\ frame[c].result = frame[c].reply
                 /\ frame[c].result[1].type = "RequestSerial"

C8_Witness ==
    \E c \in Callers :
        /\ frame[c].name = "Consumer.unregistered"
        /\ frame[c].context = "ctx-2"
        /\ Returned(c)
        /\ frame[c].result = <<RequestSerial("sn-2")>>

\* What C9 says of a call that returned, but for the returned value.
OneShot(c) ==
    /\ frame[c].opens = 1
    /\ frame[c].sends = 1
    /\ frame[c].request[1].class = ClaimedClass(frame[c].name)
    /\ frame[c].request[1].method = ClaimedMethod(frame[c].name)
    /\ frame[c].name # "PulpAgent.cancel" =>
         /\ frame[c].request[1].args = frame[c].args
         /\ frame[c].request[1].kwargs = {}

\* C9 as stated: every call that returns has opened one agent and invoked
\* one method, named after the facade method, on the facade's own class,
\* with the payload forwarded unchanged, and returns what the invocation
\* returned.
C9_Original ==
    \A c \in Callers :
        Returned(c) => (OneShot(c) /\ frame[c].result = frame[c].reply)

\* C9 amended: as above, but cancel discards what the invocation returned
\* and returns nothing.
C9_OneShot ==
    \A c \in Callers :
        Returned(c) =>
            /\ OneShot(c)
            /\ frame[c].name # "PulpAgent.cancel" => frame[c].result = frame[c].reply
            /\ frame[c].name = "PulpAgent.cancel" => frame[c].result = <<NoneValue>>

C9_Witness ==
    \E c \in Callers :
        /\ frame[c].name = "Consumer.unbind"
        /\ Returned(c)
        /\ "details" \in DOMAIN frame[c].args[1][1]
        /\ frame[c].request[1].args = frame[c].args
        /\ frame[c].result = frame[c].reply

\* C10: bind, unbind, install, update and uninstall open their agent with
\* the same seven options: identity, url, secret, ctag, watchdog and any
\* are the context's uuid, url, secret, ctag, watchdog and details, the
\* seventh is the timeout, and async is not among them.
C10_CommonOptions ==
    \A c \in Callers :
        (frame[c].name \in TimeoutMethods /\ Opened(c)) =>
            LET o == frame[c].agent[1]
            IN /\ DOMAIN o = {"identity", "url", "timeout", "secret", "ctag",
                              "watchdog", "any"}
               /\ o["identity"] = ContextOf(c).uuid
               /\ o["url"] = ContextOf(c).url
               /\ o["secret"] = ContextOf(c).secret
               /\ o["ctag"] = ContextOf(c).ctag
               /\ o["watchdog"] = ContextOf(c).watchdog
               /\ o["any"] = ContextOf(c).details
               /\ AttrReads(c) = {"uuid", "url", "secret", "ctag", "watchdog",
                                  "details"}

C10_Witness ==
    \E c, d \in Callers :
        /\ frame[c].name = "Content.install" /\ frame[d].name = "Consumer.unbind"
        /\ frame[c].context = frame[d].context
        /\ Opened(c) /\ Opened(d)
        /\ [k \in DOMAIN frame[c].agent[1] \ {"timeout"} |-> frame[c].agent[1][k]]
              = [k \in DOMAIN frame[d].agent[1] \ {"timeout"} |-> frame[d].agent[1][k]]
        /\ frame[c].agent[1]["timeout"] # frame[d].agent[1]["timeout"]

====
